---- MODULE Spec2Model ----
(***************************************************************************)
(* Model of contributor_folders/isidora/pace_west.py: the linear pipeline  *)
(* that opens PACE OCI L3M chlorophyll granules, parses one date per       *)
(* granule out of its path, stacks the granules along a new time           *)
(* dimension, overwrites the time coordinate with the parsed dates,        *)
(* selects a region and the time slice nearest to a target, masks          *)
(* non-positive values and clips to a floor of 0.01.                       *)
(*                                                                         *)
(* Text is a sequence of one-character strings, a calendar date is         *)
(* <<year, month, day>>, and a chlorophyll value is an integer number of   *)
(* thousandths (0.01 is 10) or NaN.                                        *)
(***************************************************************************)
EXTENDS Integers, Sequences, FiniteSets

-----------------------------------------------------------------------------
(* Bounds of the model *)

\* most granule handles returned by earthaccess.open
MaxFiles == 3

\* most grid cells of the array handed to the cleaning step on its own
MaxCells == 4

\* grid cells of a granule in the pipeline
GridCells == 1

-----------------------------------------------------------------------------
(* Text *)

Digits == {"0", "1", "2", "3", "4", "5", "6", "7", "8", "9"}

DigitVal(c) ==
  CASE c = "0" -> 0 [] c = "1" -> 1 [] c = "2" -> 2 [] c = "3" -> 3
    [] c = "4" -> 4 [] c = "5" -> 5 [] c = "6" -> 6 [] c = "7" -> 7
    [] c = "8" -> 8 [] c = "9" -> 9

\* the literal part of date_pattern: PACE_OCI\.
PatternLiteral == <<"P", "A", "C", "E", "_", "O", "C", "I", ".">>

\* the \d{8} part of date_pattern
PatternDigits == 8

\* date_pattern matches text s starting at position k
MatchesAt(s, k) ==
  /\ k >= 1
  /\ k + Len(PatternLiteral) + PatternDigits - 1 <= Len(s)
  /\ \A j \in 1..Len(PatternLiteral) : s[k + j - 1] = PatternLiteral[j]
  /\ \A j \in 1..PatternDigits : s[k + Len(PatternLiteral) + j - 1] \in Digits

\* date_pattern.search(s): the leftmost position where the pattern matches,
\* 0 for None
search(s) ==
  IF \E k \in 1..Len(s) : MatchesAt(s, k)
    THEN CHOOSE k \in 1..Len(s) :
           MatchesAt(s, k) /\ \A h \in 1..(k - 1) : ~MatchesAt(s, h)
    ELSE 0

\* match.group(1) of a match at position k
group1(s, k) ==
  SubSeq(s, k + Len(PatternLiteral), k + Len(PatternLiteral) + PatternDigits - 1)

-----------------------------------------------------------------------------
(* Calendar dates *)

IsLeap(y) == (y % 4 = 0 /\ y % 100 # 0) \/ y % 400 = 0

DaysInMonth(y, m) ==
  CASE m \in {1, 3, 5, 7, 8, 10, 12} -> 31
    [] m \in {4, 6, 9, 11} -> 30
    [] m = 2 -> IF IsLeap(y) THEN 29 ELSE 28

RECURSIVE DaysBeforeMonth(_, _)
DaysBeforeMonth(y, m) ==
  IF m <= 1 THEN 0 ELSE DaysBeforeMonth(y, m - 1) + DaysInMonth(y, m - 1)

\* proleptic Gregorian day number of a date; differences of ordinals are the
\* distances between the midnight timestamps
Ordinal(d) ==
  LET y == d[1] - 1
  IN  y * 365 + (y \div 4) - (y \div 100) + (y \div 400)
        + DaysBeforeMonth(d[1], d[2]) + d[3]

\* the value of a run of decimal digits
RECURSIVE Number(_)
Number(ds) ==
  IF ds = <<>> THEN 0
  ELSE 10 * Number(SubSeq(ds, 1, Len(ds) - 1)) + DigitVal(ds[Len(ds)])

\* a parse with format "%Y%d%m": day and month swapped
ParsedFieldsDayFirst(ds) ==
  <<Number(SubSeq(ds, 1, 4)), Number(SubSeq(ds, 7, 8)), Number(SubSeq(ds, 5, 6))>>

\* the fields the format "%Y%m%d" reads from an 8-digit string
ParsedFields(ds) ==
  <<Number(SubSeq(ds, 1, 4)), Number(SubSeq(ds, 5, 6)), Number(SubSeq(ds, 7, 8))>>

\* a validity test that allows 31 days in every month
IsCalendarDateAnyMonth31(d) ==
  /\ d[1] \in 1..9999
  /\ d[2] \in 1..12
  /\ d[3] \in 1..31

IsCalendarDate(d) ==
  /\ d[1] \in 1..9999
  /\ d[2] \in 1..12
  /\ d[3] \in 1..DaysInMonth(d[1], d[2])

\* the dates a nanosecond-resolution Timestamp can hold
TimestampMin == <<1677, 9, 21>>
TimestampMax == <<2262, 4, 11>>

InNanosecondRange(d) ==
  /\ Ordinal(d) >= Ordinal(TimestampMin)
  /\ Ordinal(d) <= Ordinal(TimestampMax)

ParseError == <<"ParseError">>

\* pd.to_datetime(date_str, format="%Y%m%d") on 8 digits: the date, or
\* ParseError for a raised ValueError.  A calendar date outside the
\* nanosecond range raises OutOfBoundsDatetime in a pandas that parses
\* strings to nanoseconds and parses in one that infers a coarser unit; the
\* script pins no version, so both outcomes are possible.
to_datetime(ds) ==
  LET d == ParsedFields(ds)
  IN  IF ~IsCalendarDate(d) THEN {ParseError}
      ELSE IF InNanosecondRange(d) THEN {d}
      ELSE {d, ParseError}

-----------------------------------------------------------------------------
(* Inputs: the paths of the granule handles *)

\* s3/PACE_OCI.20240604.nc
\* a granule of 4 June 2024
Path0604 ==
  <<"s", "3", "/", "P", "A", "C", "E", "_", "O", "C", "I", ".", "2", "0", "2", "4", "0", "6", "0", "4", ".", "n", "c">>

\* s3/PACE_OCI.20240610.nc
\* a granule of 10 June 2024
Path0610 ==
  <<"s", "3", "/", "P", "A", "C", "E", "_", "O", "C", "I", ".", "2", "0", "2", "4", "0", "6", "1", "0", ".", "n", "c">>

\* PACE_OCI.2024022/PACE_OCI.20240229
\* the pattern fails on 7 digits in the directory and matches further on
PathLeapDay ==
  <<"P", "A", "C", "E", "_", "O", "C", "I", ".", "2", "0", "2", "4", "0", "2", "2", "/", "P", "A", "C", "E", "_", "O", "C", "I", ".", "2", "0", "2", "4", "0", "2", "2", "9">>

\* PACE_OCI.202406101
\* 9 digits: the pattern takes the first 8, 10 June 2024 again
PathNineDigits ==
  <<"P", "A", "C", "E", "_", "O", "C", "I", ".", "2", "0", "2", "4", "0", "6", "1", "0", "1">>

\* PACE_OCI.99991231
\* a calendar date no nanosecond Timestamp holds
PathYear9999 ==
  <<"P", "A", "C", "E", "_", "O", "C", "I", ".", "9", "9", "9", "9", "1", "2", "3", "1">>

\* PACE_OCI.20241345
\* 8 digits that are no calendar date: month 13
PathMonth13 ==
  <<"P", "A", "C", "E", "_", "O", "C", "I", ".", "2", "0", "2", "4", "1", "3", "4", "5">>

\* PACE_OCI.20230229
\* 8 digits that are no calendar date: 29 February 2023
PathFeb29 ==
  <<"P", "A", "C", "E", "_", "O", "C", "I", ".", "2", "0", "2", "3", "0", "2", "2", "9">>

\* PACE_OCI_20240604
\* no '.' after PACE_OCI: no match
PathUnderscore ==
  <<"P", "A", "C", "E", "_", "O", "C", "I", "_", "2", "0", "2", "4", "0", "6", "0", "4">>

\* PACE_OCI.2024060.nc
\* 7 digits: no match
PathSevenDigits ==
  <<"P", "A", "C", "E", "_", "O", "C", "I", ".", "2", "0", "2", "4", "0", "6", "0", ".", "n", "c">>

Paths ==
  {Path0604, Path0610, PathLeapDay, PathNineDigits, PathYear9999,
   PathMonth13, PathFeb29, PathUnderscore, PathSevenDigits}

\* every sequence of at most n elements of S
SeqsUpTo(S, n) == UNION {[1..k -> S] : k \in 0..n}

\* the values of the free variable `time`
Targets == {<<2024, 6, 4>>, <<2024, 6, 7>>, <<2024, 6, 9>>, <<2025, 1, 1>>}

\* a slice that carries no time coordinate of its own
NoTime == <<>>

\* the time values a granule may carry itself
EmbeddedTimes == {NoTime, <<2000, 1, 1>>}

\* a chlorophyll value is NaN or <<v>>, v in thousandths
NaN == <<>>

\* the floor of clip(min=0.01), in thousandths
ClipMin == 10

PipelineValues == {NaN, <<-1000>>, <<1>>, <<5000>>}

AllValues == {NaN, <<-1000>>, <<0>>, <<1>>, <<9>>, <<10>>, <<5000>>}

-----------------------------------------------------------------------------
(* State *)

VARIABLES
  pc,        \* the statement the run is at; "raised" after an uncaught error
  fileset,   \* the paths of the granule handles, in the order of earthaccess.open
  n,         \* handles the loop has finished with
  dates,     \* the list dates
  err,       \* the uncaught error, kind "none" while there is none
  grid,      \* cells of a granule's grid
  CHL,       \* the dataset: one slice per granule, [granule, time]
  region,    \* the cells lat_west, lon_west select, <<lo, hi>>
  time,      \* the free variable time, NoTime until it is read
  chlor_a,   \* the stored values of the selected slice on the region
  CHL_west   \* the result, [time, values]

vars ==
  <<pc, fileset, n, dates, err, grid, CHL, region, time, chlor_a, CHL_west>>

NoError == [kind |-> "none", text |-> "", path |-> <<>>, found |-> 0, files |-> 0]

Error(kind, text, path, found, files) ==
  [kind |-> kind, text |-> text, path |-> path, found |-> found, files |-> files]

NoResult == [time |-> NoTime, values |-> <<>>]

\* the state after fileset = earthaccess.open(results_day) and dates = []
Start(files, cells) ==
  /\ pc = "for"
  /\ fileset = files
  /\ n = 0
  /\ dates = <<>>
  /\ err = NoError
  /\ grid = cells
  /\ CHL = <<>>
  /\ region = <<1, 0>>
  /\ time = NoTime
  /\ chlor_a = <<>>
  /\ CHL_west = NoResult

Init == \E files \in SeqsUpTo(Paths, MaxFiles) : Start(files, GridCells)

Raise(e) ==
  /\ pc' = "raised"
  /\ err' = e

-----------------------------------------------------------------------------
(* The extraction loop *)

\* ts with t inserted in ascending order
InsertSorted(ts, t) ==
  LET k == Cardinality({i \in 1..Len(ts) : Ordinal(ts[i]) <= Ordinal(t)})
  IN  SubSeq(ts, 1, k) \o <<t>> \o SubSeq(ts, k + 1, Len(ts))

\* a loop body that skips a handle whose path does not match (`continue`
\* in place of `raise`)
ForBodySkips ==
  /\ pc = "for"
  /\ n < Len(fileset)
  /\ LET path == fileset[n + 1]
         match == search(path)
     IN  IF match = 0
           THEN /\ n' = n + 1
                /\ UNCHANGED <<pc, err, dates>>
           ELSE \E t \in to_datetime(group1(path, match)) :
                  IF t = ParseError
                    THEN /\ Raise(Error("to_datetime", "", path, 0, 0))
                         /\ UNCHANGED <<n, dates>>
                    ELSE /\ dates' = Append(dates, t)
                         /\ n' = n + 1
                         /\ UNCHANGED <<pc, err>>
  /\ UNCHANGED <<fileset, grid, CHL, region, time, chlor_a, CHL_west>>

\* a loop body that keeps the date list in ascending order
ForBodySorts ==
  /\ pc = "for"
  /\ n < Len(fileset)
  /\ LET path == fileset[n + 1]
         match == search(path)
     IN  IF match = 0
           THEN /\ Raise(Error("ValueError", "Could not extract date from: ",
                               path, 0, 0))
                /\ UNCHANGED <<n, dates>>
           ELSE \E t \in to_datetime(group1(path, match)) :
                  IF t = ParseError
                    THEN /\ Raise(Error("to_datetime", "", path, 0, 0))
                         /\ UNCHANGED <<n, dates>>
                    ELSE /\ dates' = InsertSorted(dates, t)
                         /\ n' = n + 1
                         /\ UNCHANGED <<pc, err>>
  /\ UNCHANGED <<fileset, grid, CHL, region, time, chlor_a, CHL_west>>

\* one iteration of `for f in fileset` on the next handle
ForBody ==
  /\ pc = "for"
  /\ n < Len(fileset)
  /\ LET path == fileset[n + 1]
         match == search(path)
     IN  IF match = 0
           THEN /\ Raise(Error("ValueError", "Could not extract date from: ",
                               path, 0, 0))
                /\ UNCHANGED <<n, dates>>
           ELSE \E t \in to_datetime(group1(path, match)) :
                  IF t = ParseError
                    THEN /\ Raise(Error("to_datetime", "", path, 0, 0))
                         /\ UNCHANGED <<n, dates>>
                    ELSE /\ dates' = Append(dates, t)
                         /\ n' = n + 1
                         /\ UNCHANGED <<pc, err>>
  /\ UNCHANGED <<fileset, grid, CHL, region, time, chlor_a, CHL_west>>

\* the loop ends when the handles are exhausted
ForExit ==
  /\ pc = "for"
  /\ n = Len(fileset)
  /\ pc' = "check"
  /\ UNCHANGED <<fileset, n, dates, err, grid, CHL, region, time, chlor_a, CHL_west>>

\* a check that raises only when dates are missing (`<` in place of `!=`)
SanityCheckFewerOnly ==
  /\ pc = "check"
  /\ IF Len(dates) < Len(fileset)
       THEN Raise(Error("ValueError", "Mismatch: found {} dates for {} files",
                        <<>>, Len(dates), Len(fileset)))
       ELSE /\ pc' = "open_mfdataset"
            /\ UNCHANGED err
  /\ UNCHANGED <<fileset, n, dates, grid, CHL, region, time, chlor_a, CHL_west>>

\* a check that also rejects an empty date list
SanityCheckRejectsEmpty ==
  /\ pc = "check"
  /\ IF Len(dates) # Len(fileset) \/ Len(dates) = 0
       THEN Raise(Error("ValueError", "Mismatch: found {} dates for {} files",
                        <<>>, Len(dates), Len(fileset)))
       ELSE /\ pc' = "open_mfdataset"
            /\ UNCHANGED err
  /\ UNCHANGED <<fileset, n, dates, grid, CHL, region, time, chlor_a, CHL_west>>

\* if len(dates) != len(fileset): raise ValueError(...)
SanityCheck ==
  /\ pc = "check"
  /\ IF Len(dates) # Len(fileset)
       THEN Raise(Error("ValueError", "Mismatch: found {} dates for {} files",
                        <<>>, Len(dates), Len(fileset)))
       ELSE /\ pc' = "open_mfdataset"
            /\ UNCHANGED err
  /\ UNCHANGED <<fileset, n, dates, grid, CHL, region, time, chlor_a, CHL_west>>

-----------------------------------------------------------------------------
(* Assembly and coordinate correction *)

\* xr.open_mfdataset(fileset, combine="nested", concat_dim="time"): one slice
\* per handle, stacked in the order of fileset; no files is an OSError
OpenMfdataset ==
  /\ pc = "open_mfdataset"
  /\ IF Len(fileset) = 0
       THEN /\ Raise(Error("OSError", "no files to open", <<>>, 0, 0))
            /\ UNCHANGED CHL
       ELSE /\ \E embedded \in [1..Len(fileset) -> EmbeddedTimes] :
                 CHL' = [i \in 1..Len(fileset) |->
                           [granule |-> i, time |-> embedded[i]]]
            /\ pc' = "assign_coords"
            /\ UNCHANGED err
  /\ UNCHANGED <<fileset, n, dates, grid, region, time, chlor_a, CHL_west>>

\* a replacement that keeps the time a slice already carries
WithTimeKeepsOwn(ds, ts) ==
  [i \in 1..Len(ds) |->
     IF ds[i].time # NoTime THEN ds[i] ELSE [ds[i] EXCEPT !.time = ts[i]]]

\* the dataset with its time coordinate replaced by ts, position by position
WithTime(ds, ts) == [i \in 1..Len(ds) |-> [ds[i] EXCEPT !.time = ts[i]]]

\* CHL.assign_coords(time=("time", dates)); a length other than the size of
\* the time dimension is a ValueError
AssignCoords ==
  /\ pc = "assign_coords"
  /\ IF Len(dates) # Len(CHL)
       THEN /\ Raise(Error("ValueError", "conflicting sizes for dimension 'time'",
                           <<>>, Len(dates), Len(CHL)))
            /\ UNCHANGED CHL
       ELSE /\ CHL' = WithTime(CHL, dates)
            /\ pc' = "sel_region"
            /\ UNCHANGED err
  /\ UNCHANGED <<fileset, n, dates, grid, region, time, chlor_a, CHL_west>>

-----------------------------------------------------------------------------
(* Selection and cleaning *)

\* the regions lat_west, lon_west can select on a grid of g cells
Regions(g) == {<<1, 0>>} \cup {r \in (1..g) \X (1..g) : r[1] <= r[2]}

\* CHL.sel(lat=lat_west, lon=lon_west)
SelRegion ==
  /\ pc = "sel_region"
  /\ \E r \in Regions(grid) : region' = r
  /\ pc' = "sel_time"
  /\ UNCHANGED <<fileset, n, dates, err, grid, CHL, time, chlor_a, CHL_west>>

\* the time coordinate of the dataset, as an index
TimeIndex(ds) == [i \in 1..Len(ds) |-> ds[i].time]

IsUnique(ix) == \A i, j \in 1..Len(ix) : i # j => ix[i] # ix[j]

IsMonotonicIncreasing(ix) ==
  \A i \in 1..(Len(ix) - 1) : Ordinal(ix[i]) <= Ordinal(ix[i + 1])

IsMonotonicDecreasing(ix) ==
  \A i \in 1..(Len(ix) - 1) : Ordinal(ix[i]) >= Ordinal(ix[i + 1])

Abs(x) == IF x < 0 THEN -x ELSE x

Max(S) == CHOOSE x \in S : \A y \in S : y <= x
Min(S) == CHOOSE x \in S : \A y \in S : x <= y

\* get_indexer(method="pad") on a monotonic index: the last position whose
\* value is on the near side of t, 0 for -1
pad(ix, t) ==
  LET P == IF IsMonotonicIncreasing(ix)
             THEN {i \in 1..Len(ix) : Ordinal(ix[i]) <= Ordinal(t)}
             ELSE {i \in 1..Len(ix) : Ordinal(ix[i]) >= Ordinal(t)}
  IN  IF P = {} THEN 0 ELSE Max(P)

\* get_indexer(method="backfill"): the first position at or past t, 0 for -1
backfill(ix, t) ==
  LET P == IF IsMonotonicIncreasing(ix)
             THEN {i \in 1..Len(ix) : Ordinal(ix[i]) >= Ordinal(t)}
             ELSE {i \in 1..Len(ix) : Ordinal(ix[i]) <= Ordinal(t)}
  IN  IF P = {} THEN 0 ELSE Min(P)

\* the distance from t to the value at position i; position -1 indexes the
\* last value
Distance(ix, t, i) ==
  Abs(Ordinal(t) - Ordinal(ix[IF i = 0 THEN Len(ix) ELSE i]))

\* a comparison that takes left on equal distances whatever the order
TakesLeftOnTie(ix, l, r) == l <= r

\* left is taken when its distance is less than right's on an increasing index,
\* less than or equal on a decreasing one
TakesLeft(ix, l, r) ==
  IF IsMonotonicIncreasing(ix) THEN l < r ELSE l <= r

\* Index._get_nearest_indexer for one target: the position, 0 for -1
nearest(ix, t) ==
  LET left == pad(ix, t)
      right == backfill(ix, t)
  IN  IF TakesLeft(ix, Distance(ix, t, left), Distance(ix, t, right)) \/ right = 0
        THEN left
        ELSE right

\* x >= 0
NonNegative(v) == v # NaN /\ v[1] >= 0

\* x > 0
Positive(v) == v # NaN /\ v[1] > 0

\* .where(lambda x: x > 0)
where(x) == [i \in 1..Len(x) |-> IF Positive(x[i]) THEN x[i] ELSE NaN]

\* .clip(min=0.01)
clip(x) ==
  [i \in 1..Len(x) |->
     IF x[i] = NaN THEN NaN
     ELSE IF x[i][1] < ClipMin THEN <<ClipMin>>
     ELSE x[i]]

\* CHL_west.chlor_a.sel(time=time, method='nearest').where(lambda x: x > 0),
\* the stored values of the selected slice drawn from Values
SelTimeWhere(Values) ==
  /\ pc = "sel_time"
  /\ \E t \in Targets :
       /\ time' = t
       /\ LET ix == TimeIndex(CHL)
          IN  IF ~IsUnique(ix)
                THEN /\ Raise(Error("InvalidIndexError",
                         "Reindexing only valid with uniquely valued Index objects",
                         <<>>, 0, 0))
                     /\ UNCHANGED <<chlor_a, CHL_west>>
              ELSE IF ~(IsMonotonicIncreasing(ix) \/ IsMonotonicDecreasing(ix))
                THEN /\ Raise(Error("ValueError",
                         "index must be monotonic increasing or decreasing",
                         <<>>, 0, 0))
                     /\ UNCHANGED <<chlor_a, CHL_west>>
              ELSE IF nearest(ix, t) = 0
                THEN /\ Raise(Error("KeyError", "not all values found in index 'time'",
                                    <<>>, 0, 0))
                     /\ UNCHANGED <<chlor_a, CHL_west>>
              ELSE \E x \in [1..(region[2] - region[1] + 1) -> Values] :
                     /\ chlor_a' = x
                     /\ CHL_west' = [time |-> ix[nearest(ix, t)], values |-> where(x)]
                     /\ pc' = "clip"
                     /\ UNCHANGED err
  /\ UNCHANGED <<fileset, n, dates, grid, CHL, region>>

\* CHL_west = CHL_west.clip(min=0.01)
Clip ==
  /\ pc = "clip"
  /\ CHL_west' = [CHL_west EXCEPT !.values = clip(CHL_west.values)]
  /\ pc' = "end"
  /\ UNCHANGED <<fileset, n, dates, err, grid, CHL, region, time, chlor_a>>

-----------------------------------------------------------------------------
(* The run *)

Next ==
  \/ ForBody
  \/ ForExit
  \/ SanityCheck
  \/ OpenMfdataset
  \/ AssignCoords
  \/ SelRegion
  \/ SelTimeWhere(PipelineValues)
  \/ Clip

Spec == Init /\ [][Next]_vars

\* The sanity check and what follows it, from every date list and handle
\* sequence the check can be handed
InitCheck ==
  \E files \in SeqsUpTo({Path0604, Path0610}, MaxFiles) :
    \E ds \in SeqsUpTo({<<2024, 6, 4>>, <<2024, 6, 10>>}, MaxFiles) :
      /\ pc = "check"
      /\ fileset = files
      /\ n = Len(files)
      /\ dates = ds
      /\ err = NoError
      /\ grid = GridCells
      /\ CHL = <<>>
      /\ region = <<1, 0>>
      /\ time = NoTime
      /\ chlor_a = <<>>
      /\ CHL_west = NoResult

NextCheck ==
  \/ SanityCheck
  \/ OpenMfdataset
  \/ AssignCoords
  \/ SelRegion
  \/ SelTimeWhere(PipelineValues)
  \/ Clip

SpecCheck == InitCheck /\ [][NextCheck]_vars

\* The run on one granule with every array of stored values
InitClean == Start(<<Path0604>>, MaxCells)

NextClean ==
  \/ ForBody
  \/ ForExit
  \/ SanityCheck
  \/ OpenMfdataset
  \/ AssignCoords
  \/ SelRegion
  \/ SelTimeWhere(AllValues)
  \/ Clip

SpecClean == InitClean /\ [][NextClean]_vars

-----------------------------------------------------------------------------
(* What the properties speak of, stated on the text of a path and on the   *)
(* calendar, apart from the operators the actions use                      *)

\* position k of path p starts 'PACE_OCI.' followed by 8 digits
StampAt(p, k) ==
  /\ k + 16 <= Len(p)
  /\ SubSeq(p, k, k + 8) = <<"P", "A", "C", "E", "_", "O", "C", "I", ".">>
  /\ \A j \in (k + 9)..(k + 16) :
       p[j] \in {"0", "1", "2", "3", "4", "5", "6", "7", "8", "9"}

HasStamp(p) == \E k \in 1..Len(p) : StampAt(p, k)

\* the 8 digits of the leftmost stamp of p, as numbers
StampDigits(p) ==
  LET k == CHOOSE k \in 1..Len(p) :
             StampAt(p, k) /\ \A h \in 1..(k - 1) : ~StampAt(p, h)
  IN  [j \in 1..8 |-> DigitVal(p[k + 8 + j])]

\* the 8 digits read as YYYYMMDD
EncodedDate(p) ==
  LET d == StampDigits(p)
  IN  <<1000 * d[1] + 100 * d[2] + 10 * d[3] + d[4],
        10 * d[5] + d[6],
        10 * d[7] + d[8]>>

OnCalendar(d) ==
  /\ d[1] >= 1
  /\ d[2] \in 1..12
  /\ d[3] >= 1
  /\ d[3] <= (IF d[2] = 2
                THEN (IF d[1] % 4 = 0 /\ (d[1] % 100 # 0 \/ d[1] % 400 = 0)
                        THEN 29 ELSE 28)
                ELSE IF d[2] \in {4, 6, 9, 11} THEN 30 ELSE 31)

\* a stamp every pandas parses: a calendar date of the years 1678 to 2261
SurelyParses(p) ==
  /\ HasStamp(p)
  /\ OnCalendar(EncodedDate(p))
  /\ EncodedDate(p)[1] \in 1678..2261

NoMatchText == "Could not extract date from: "

MismatchText == "Mismatch: found {} dates for {} files"

\* the run has passed the sanity check: assembly has been entered
Assembling ==
  \/ pc \in {"open_mfdataset", "assign_coords", "sel_region", "sel_time",
             "clip", "end"}
  \/ CHL # <<>>
  \/ pc = "raised" /\ err.kind \in {"OSError", "InvalidIndexError", "KeyError"}

\* the time coordinate has been overwritten
Corrected ==
  \/ pc \in {"sel_region", "sel_time", "clip", "end"}
  \/ pc = "raised" /\ CHL # <<>> /\ err.text # "conflicting sizes for dimension 'time'"

\* a time slice has been selected
Selected == pc \in {"clip", "end"}

-----------------------------------------------------------------------------
(* C1 *)

\* handle i is the first whose path has no stamp
FirstUnmatched(i) ==
  /\ i \in 1..Len(fileset)
  /\ ~HasStamp(fileset[i])
  /\ \A j \in 1..(i - 1) : HasStamp(fileset[j])

\* C1 as stated: if some path has no 'PACE_OCI.' + 8 digits, the loop never
\* gets past the first such path, and a run that has stopped has stopped on
\* the no-match error carrying exactly that path.
C1_AbortsOnFirstUnmatched ==
  \A i \in 1..Len(fileset) :
    FirstUnmatched(i) =>
      /\ n < i
      /\ Len(dates) < i
      /\ pc \in {"for", "raised"}
      /\ pc = "raised" =>
           /\ err.text = NoMatchText
           /\ err.path = fileset[i]

\* C1 amended: the loop never gets past the first path without a stamp; a
\* run that has stopped has stopped either on the no-match error carrying
\* exactly that path, right after the i-1 handles before it, or earlier, on
\* the date-parsing error of a handle before it whose digits pandas may
\* refuse; when every earlier stamp surely parses it is the no-match error.
C1_AbortsOnFirstUnmatchedUnlessParseError ==
  \A i \in 1..Len(fileset) :
    FirstUnmatched(i) =>
      /\ n < i
      /\ Len(dates) = n
      /\ pc \in {"for", "raised"}
      /\ pc = "raised" =>
           \/ /\ err.kind = "ValueError"
              /\ err.text = NoMatchText
              /\ err.path = fileset[i]
              /\ n = i - 1
           \/ /\ err.kind = "to_datetime"
              /\ n + 1 < i
              /\ err.path = fileset[n + 1]
              /\ ~SurelyParses(fileset[n + 1])
      /\ (pc = "raised" /\ \A j \in 1..(i - 1) : SurelyParses(fileset[j])) =>
           err.text = NoMatchText

\* the no-match error raised at the second handle, with an unmatched path
\* after it that is never looked at
C1_Witness ==
  /\ pc = "raised"
  /\ err.text = NoMatchText
  /\ n = 1
  /\ Len(fileset) = 3
  /\ err.path = fileset[2]
  /\ ~HasStamp(fileset[3])

-----------------------------------------------------------------------------
(* C2 *)

\* C2: every extracted date comes from a path that has a stamp, and equals
\* the calendar date its 8 digits spell as YYYYMMDD.
C2_DateIsEncodedDate ==
  \A i \in 1..Len(dates) :
    /\ HasStamp(fileset[i])
    /\ dates[i] = EncodedDate(fileset[i])
    /\ OnCalendar(dates[i])

\* dates extracted from a stamp behind a directory, a plain stamp and a
\* stamp of 9 digits
C2_Witness ==
  /\ pc = "check"
  /\ fileset = <<PathLeapDay, Path0604, PathNineDigits>>
  /\ dates = <<<<2024, 2, 29>>, <<2024, 6, 4>>, <<2024, 6, 10>>>>

-----------------------------------------------------------------------------
(* C3 *)

\* C3: once the check has run on differing counts the run has stopped on
\* the mismatch error naming both counts, and nothing of assembly,
\* correction or selection has happened.
C3_MismatchStopsBeforeAssembly ==
  (Len(dates) # Len(fileset) /\ pc # "check") =>
    /\ pc = "raised"
    /\ err.kind = "ValueError"
    /\ err.text = MismatchText
    /\ err.found = Len(dates)
    /\ err.files = Len(fileset)
    /\ ~Assembling
    /\ CHL = <<>>
    /\ CHL_west = NoResult

\* the mismatch error for 3 dates and 2 files
C3_Witness ==
  /\ pc = "raised"
  /\ err.text = MismatchText
  /\ err.found = 3
  /\ err.files = 2
  /\ Len(dates) = 3
  /\ Len(fileset) = 2

-----------------------------------------------------------------------------
(* C4 *)

\* C4: once the time coordinate has been overwritten it is the date list:
\* as long, and equal position by position.
C4_TimeCoordinateIsDates ==
  Corrected =>
    /\ Len(CHL) = Len(dates)
    /\ \A i \in 1..Len(CHL) : CHL[i].time = dates[i]

\* three slices relabelled
C4_Witness ==
  /\ pc = "sel_region"
  /\ Len(CHL) = 3
  /\ TimeIndex(CHL) = <<<<2024, 6, 10>>, <<2024, 2, 29>>, <<2024, 6, 4>>>>

-----------------------------------------------------------------------------
(* C5 *)

\* what cleaning is to make of one stored value
Cleaned(v) ==
  IF v = NaN THEN NaN
  ELSE IF v[1] <= 0 THEN NaN
  ELSE IF v[1] < 10 THEN <<10>>
  ELSE v

\* C5: the result of the run is the stored values of the selected slice
\* with every v <= 0 missing, every 0 < v < 0.01 at 0.01 and every
\* v >= 0.01 as it was (a missing value stays missing); [-1, 0, 0.001, 5]
\* becomes [missing, missing, 0.01, 5]; and the non-positive values are
\* already missing when clipping starts.
C5_CleaningMasksThenFloors ==
  /\ Selected =>
       /\ Len(CHL_west.values) = Len(chlor_a)
       /\ \A i \in 1..Len(chlor_a) :
            (chlor_a[i] = NaN \/ chlor_a[i][1] <= 0) => CHL_west.values[i] = NaN
  /\ pc = "end" =>
       /\ \A i \in 1..Len(chlor_a) : CHL_west.values[i] = Cleaned(chlor_a[i])
       /\ chlor_a = <<<<-1000>>, <<0>>, <<1>>, <<5000>>>> =>
            CHL_west.values = <<NaN, NaN, <<10>>, <<5000>>>>

\* the array [-1, 0, 0.001, 5] cleaned
C5_Witness ==
  /\ pc = "end"
  /\ chlor_a = <<<<-1000>>, <<0>>, <<1>>, <<5000>>>>
  /\ CHL_west.values = <<NaN, NaN, <<10>>, <<5000>>>>

-----------------------------------------------------------------------------
(* C6 *)

DaysApart(a, b) == Abs(Ordinal(a) - Ordinal(b))

\* the selected slice is one of the time axis and none is nearer to the target
SelectsANearest ==
  Selected =>
    /\ \E i \in 1..Len(CHL) : CHL[i].time = CHL_west.time
    /\ \A i \in 1..Len(CHL) :
         DaysApart(CHL_west.time, time) <= DaysApart(CHL[i].time, time)

\* the time axis [2024-06-04, 2024-06-10] with target 2024-06-07
TieCase ==
  /\ Selected
  /\ TimeIndex(CHL) = <<<<2024, 6, 4>>, <<2024, 6, 10>>>>
  /\ time = <<2024, 6, 7>>

\* C6 as stated: the selected slice is a nearest one, and on the axis
\* [2024-06-04, 2024-06-10] with target 2024-06-07 it is 2024-06-04.
C6_TieSelectsEarlier ==
  /\ SelectsANearest
  /\ TieCase => CHL_west.time = <<2024, 6, 4>>

\* C6 amended: the selected slice is a nearest one; of two equally near
\* slices it is the one with the later time, so on the axis
\* [2024-06-04, 2024-06-10] with target 2024-06-07 it is 2024-06-10.
C6_TieSelectsLater ==
  /\ SelectsANearest
  /\ Selected =>
       \A i \in 1..Len(CHL) :
         DaysApart(CHL[i].time, time) = DaysApart(CHL_west.time, time) =>
           Ordinal(CHL[i].time) <= Ordinal(CHL_west.time)
  /\ TieCase => CHL_west.time = <<2024, 6, 10>>

\* the tie, resolved
C6_Witness ==
  /\ TieCase
  /\ CHL_west.time = <<2024, 6, 10>>

-----------------------------------------------------------------------------
(* C7 *)

\* C7: from assembly on there is one date per handle, dates[i] is the date
\* spelled in the path of fileset[i], slice i of the dataset comes from
\* handle i, and once relabelled it carries the date of that handle's path.
C7_DatesAlignedWithHandles ==
  Assembling =>
    /\ Len(dates) = Len(fileset)
    /\ \A i \in 1..Len(fileset) : dates[i] = EncodedDate(fileset[i])
    /\ \A i \in 1..Len(CHL) :
         /\ CHL[i].granule = i
         /\ Corrected => CHL[i].time = EncodedDate(fileset[CHL[i].granule])

\* a relabelled dataset of handles that are not in date order and repeat a
\* date
C7_Witness ==
  /\ pc = "sel_time"
  /\ fileset = <<Path0610, Path0604, PathNineDigits>>
  /\ dates = <<<<2024, 6, 10>>, <<2024, 6, 4>>, <<2024, 6, 10>>>>
  /\ TimeIndex(CHL) = dates

-----------------------------------------------------------------------------
(* C8 *)

\* C8: with no handles the date list stays empty, neither explicit check
\* raises, the run reaches open_mfdataset, and if it stops it stops on the
\* error of that call.
C8_EmptyFilesetReachesAssembly ==
  fileset = <<>> =>
    /\ dates = <<>>
    /\ n = 0
    /\ pc \in {"for", "check", "open_mfdataset", "raised"}
    /\ err.text \notin {NoMatchText, MismatchText}
    /\ pc = "raised" => (err.kind = "OSError" /\ err.text = "no files to open")

\* the run with no handles stopped inside open_mfdataset
C8_Witness ==
  /\ fileset = <<>>
  /\ pc = "raised"
  /\ err.kind = "OSError"

-----------------------------------------------------------------------------
(* C9 *)

\* C9: whenever the sanity check is evaluated the counts are equal, and the
\* mismatch error is never raised.
C9_MismatchUnreachable ==
  /\ pc = "check" => Len(dates) = Len(fileset)
  /\ err.text # MismatchText

\* the sanity check about to be evaluated on three handles
C9_Witness ==
  /\ pc = "check"
  /\ Len(fileset) = 3
  /\ Len(dates) = 3

-----------------------------------------------------------------------------
(* C10 *)

\* the path of handle i has a stamp whose digits are no calendar date
BadDateAt(i) ==
  /\ HasStamp(fileset[i])
  /\ ~OnCalendar(EncodedDate(fileset[i]))

\* C10: a handle whose stamp is no calendar date is never finished by the
\* loop and gets no date; assembly is never entered; and the run that stops
\* at that handle stops on the date-parsing error, which is neither of the
\* two explicit checks.
C10_BadDateAbortsAtHandle ==
  \A i \in 1..Len(fileset) :
    BadDateAt(i) =>
      /\ n < i
      /\ Len(dates) < i
      /\ pc \in {"for", "raised"}
      /\ ~Assembling
      /\ (pc = "raised" /\ n = i - 1) =>
           /\ err.kind = "to_datetime"
           /\ err.path = fileset[i]
           /\ err.text \notin {NoMatchText, MismatchText}

\* PACE_OCI.20241345 stopping the run at the second handle
C10_Witness ==
  /\ pc = "raised"
  /\ err.kind = "to_datetime"
  /\ err.path = PathMonth13
  /\ Len(fileset) >= 2
  /\ fileset[2] = PathMonth13
  /\ n = 1
  /\ Len(dates) = 1

====
